---- MODULE Spec2Model ----
(***************************************************************************)
(* Resolution engine of the optimistic oracle: the transition table        *)
(* (StateMachineService), the orchestrator (ResolutionService), the two    *)
(* queue processors and the chain adapter, as state machines.              *)
(*                                                                         *)
(* Time is scaled: one clock unit stands for the liveness back-off base.   *)
(***************************************************************************)
EXTENDS Integers, Sequences, FiniteSets, TLC

VARIABLES
  clock,            \* Date.now(), in scaled units
  emStatus,         \* event-manager peer: eventId -> status
  propPeer,         \* proposal peer: proposalId -> proposal record or NoVal
  disputes,         \* dispute peer: proposalIds that have at least one dispute row
  cache,            \* CacheService: key -> value or NoVal
  livenessQueue,    \* queue 'liveness-monitoring': sequence of check-liveness jobs
  settlementQueue,  \* queue 'settlement-processing': sequence of settle-event jobs
  hd,               \* the handleDisputeDetected call in flight
  hdCalls,          \* handleDisputeDetected invocations so far
  finalizeTx,       \* proposalId -> finalize transactions confirmed on chain
  settleTx,         \* eventId -> settle transactions confirmed on chain
  rewardPosts,      \* eventId -> whether /distribute was posted successfully
  faults,           \* chain / peer / queue calls that have failed so far
  lastFault,        \* the call that failed last, and whether its error was rethrown
  smFrom,      \* transition table check: context.currentState on entry
  smTarget,    \* transition table check: targetState argument
  smCtx,       \* transition table check: the context object
  smOutcome,   \* "pending" | "ok" | "invalid" (what transition() did)
  smCan,       \* << >> while not called, else <<b>>: canTransition() returned b
  batchJob,         \* the batch-settlement job: "none" | "waiting" | "active" | "completed" | "failed"
  batchIds,         \* job.data.eventIds
  batchCalls,       \* eventIds settleEvent was invoked with by the handler, in order
  batchResults,     \* the promises of those invocations: "pending" | "fulfilled" | "rejected"
  batchLog,         \* << >>, or <<[successful, failed]>> once the handler logged its counts
  head,             \* chain head: provider.getBlockNumber()
  lastIndexedBlock, \* IndexerService.lastIndexedBlock
  ix,               \* the indexNewBlocks tick in flight
  posted,           \* block -> successful POSTs of the EventCreated log of that block
  covered,          \* block -> processed ranges that contained the block
  ixSeeds,          \* the values lastIndexedBlock was seeded with, in order
  ixOther,          \* a second indexNewBlocks tick, suspended at one of its awaits
  peCalls,          \* processEvent calls so far: what each returned or threw
  pauseLog          \* pauseLivenessMonitoring calls so far: the queue before and after

smVars == <<smFrom, smTarget, smCtx, smOutcome, smCan>>
batchVars == <<batchJob, batchIds, batchCalls, batchResults, batchLog>>
ixVars == <<head, lastIndexedBlock, ix, ixOther, posted, covered, ixSeeds>>
otherVars == <<batchVars, ixVars, peCalls, pauseLog>>
svcVars == <<smVars, otherVars>>
faultVars == <<faults, lastFault>>

peerVars == <<emStatus, propPeer, disputes>>
queueVars == <<livenessQueue, settlementQueue>>
callVars == <<hd, hdCalls>>
logVars == <<finalizeTx, settleTx, rewardPosts>>
engineVars == <<clock, peerVars, cache, queueVars, callVars, logVars, faultVars>>

vars == <<engineVars, smVars, otherVars>>

----------------------------------------------------------------------------
(* ResolutionState enum *)

CREATED == "created"
DETECTING == "detecting"
EVIDENCE_GATHERING == "evidence_gathering"
PROPOSING == "proposing"
LIVENESS == "liveness"
MONITORING == "monitoring"
DISPUTED == "disputed"
ARBITRATION == "arbitration"
RESOLVED == "resolved"
SETTLED == "settled"

ResolutionState ==
  {CREATED, DETECTING, EVIDENCE_GATHERING, PROPOSING, LIVENESS,
   MONITORING, DISPUTED, ARBITRATION, RESOLVED, SETTLED}

----------------------------------------------------------------------------
(* StateMachineService *)

\* The private `transitions` map: key -> list of {from, to}.
transitions ==
  [k \in {CREATED, DETECTING, PROPOSING, LIVENESS, DISPUTED, ARBITRATION, RESOLVED} |->
     CASE k = CREATED     -> << [from |-> {CREATED}, to |-> DETECTING],
                                [from |-> {CREATED}, to |-> EVIDENCE_GATHERING] >>
       [] k = DETECTING   -> << [from |-> {DETECTING}, to |-> PROPOSING],
                                [from |-> {DETECTING}, to |-> EVIDENCE_GATHERING] >>
       [] k = PROPOSING   -> << [from |-> {PROPOSING}, to |-> LIVENESS] >>
       [] k = LIVENESS    -> << [from |-> {LIVENESS}, to |-> DISPUTED],
                                [from |-> {LIVENESS}, to |-> MONITORING],
                                [from |-> {LIVENESS}, to |-> RESOLVED] >>
       [] k = DISPUTED    -> << [from |-> {DISPUTED}, to |-> ARBITRATION],
                                [from |-> {DISPUTED}, to |-> LIVENESS] >>
       [] k = ARBITRATION -> << [from |-> {ARBITRATION}, to |-> RESOLVED],
                                [from |-> {ARBITRATION}, to |-> LIVENESS] >>
       [] k = RESOLVED    -> << [from |-> {RESOLVED}, to |-> SETTLED] >>]

\* this.transitions.get(key) || []
TransitionsGet(key) == IF key \in DOMAIN transitions THEN transitions[key] ELSE << >>

\* The directed graph the table's entries spell out: from -> to.
IsEdge(from, to) ==
  \E k \in DOMAIN transitions : \E i \in 1..Len(transitions[k]) :
     from \in transitions[k][i].from /\ to = transitions[k][i].to

\* validTransitions.find/some((t) => t.from.includes(currentState)),
\* validTransitions being looked up under targetState.
canTransition(currentState, targetState) ==
  LET validTransitions == TransitionsGet(targetState)
  IN  \E i \in 1..Len(validTransitions) : currentState \in validTransitions[i].from

\* transition(context, targetState): the context afterwards and whether it threw.
\* No entry of the table carries a condition or an action.
transition(context, targetState) ==
  IF canTransition(context.currentState, targetState)
    THEN [ctx |-> [context EXCEPT !.currentState = targetState], outcome |-> "ok"]
    ELSE [ctx |-> context, outcome |-> "invalid"]

----------------------------------------------------------------------------
(* Bounds *)

MaxClock == 6          \* the clock stops advancing here
MaxProposalIds == 1    \* distinct proposal ids ever submitted
MaxSubmissions == 2    \* check-liveness jobs ever enqueued
MaxDisputeCalls == 1   \* handleDisputeDetected invocations
MaxFaults == 1         \* failing chain / peer / queue calls
MaxTx == 2             \* transaction counters saturate here
MaxBatch == 3          \* eventIds of a batch-settlement job
MaxHead == 3           \* the chain head stops advancing here
MaxPosts == 2          \* POST and range counters saturate here
MaxSeeds == 2          \* seedings of lastIndexedBlock that are recorded
MaxProcessCalls == 3   \* processEvent calls
MaxPauseJobs == 3      \* jobs in the queue pauseLivenessMonitoring scans
MaxPauseCalls == 2     \* consecutive pauseLivenessMonitoring calls

(* Program constants, in scaled clock units *)

LivenessWindow == 2      \* 2 * 60 * 60 * 1000 ms
LivenessAttempts == 3
LivenessBackoff == 1     \* 5000 ms
SettlementDelay == 1     \* 60000 ms
SettlementAttempts == 5
SettlementBackoff == 1   \* 10000 ms
ReplayWindow == 2        \* 100 blocks

Events == {"e1"}
NoVal == [absent |-> TRUE]   \* undefined / cache miss

Max(a, b) == IF a >= b THEN a ELSE b
Pow2(n) == IF n <= 0 THEN 1 ELSE IF n = 1 THEN 2 ELSE IF n = 2 THEN 4 ELSE IF n = 3 THEN 8 ELSE 16

\* ethers.id(`${eventId}_${Date.now()}`): one id per (eventId, clock value).
ProposalIdOf(eventId, now) == <<eventId, now>>
ProposalIds == {ProposalIdOf(e, t) : e \in Events, t \in 0..MaxClock}

----------------------------------------------------------------------------
(* CacheService: keys are ':'-separated; a key is the tuple of its segments *)

EventKey(eventId) == <<"event", eventId>>
ProposalKey(proposalId) == <<"proposal", proposalId>>
CacheKeySet == {EventKey(e) : e \in Events} \cup {ProposalKey(p) : p \in ProposalIds}

CacheSet(c, key, value) == [c EXCEPT ![key] = value]
\* variant: delete is a no-op
CacheDelete_Noop(c, key) == c
CacheDelete(c, key) == [c EXCEPT ![key] = NoVal]

\* keys(`proposal:*:${eventId}`): keys that start with "proposal:" and end with ":eventId".
CacheKeysProposalOfEvent(c, eventId) ==
  {k \in DOMAIN c : c[k] # NoVal /\ Len(k) >= 3 /\ k[1] = "proposal" /\ k[Len(k)] = eventId}

RECURSIVE CacheDeleteAll(_, _)
CacheDeleteAll(c, keys) ==
  IF keys = {} THEN c
  ELSE LET k == CHOOSE x \in keys : TRUE
       IN  CacheDeleteAll(CacheDelete(c, k), keys \ {k})

----------------------------------------------------------------------------
(* Bull jobs *)

\* variant: the scan also returns the jobs a worker is running
Pending_WithActive == {"delayed", "waiting", "active"}
Pending == {"delayed", "waiting"}

\* queue.add(name, data, {delay, ...})
NewJob(data, delay) ==
  [data |-> data,
   state |-> IF delay > 0 THEN "delayed" ELSE "waiting",
   fireAt |-> IF delay > 0 THEN clock + delay ELSE 0,
   attemptsMade |-> 0,
   pc |-> "-",
   local |-> NoVal]

\* The processor threw: retry with exponential backoff while attempts remain.
JobThrows(job, attempts, backoff) ==
  LET made == job.attemptsMade + 1
  IN  IF made < attempts
        THEN [job EXCEPT !.state = "delayed", !.attemptsMade = made, !.pc = "-",
                         !.local = NoVal,
                         !.fireAt = clock + backoff * Pow2(made - 1)]
        ELSE [job EXCEPT !.state = "failed", !.attemptsMade = made, !.pc = "-",
                         !.local = NoVal, !.fireAt = 0]

JobCompletes(job) ==
  [job EXCEPT !.state = "completed", !.pc = "-", !.local = NoVal, !.fireAt = 0]

\* a worker takes the job; the record keeps the due time of a delayed job only
JobStarts(job, pc) == [job EXCEPT !.state = "active", !.pc = pc, !.fireAt = 0]

\* job.remove()
JobRemoved(job) == [job EXCEPT !.state = "removed", !.fireAt = 0]

Bump(n) == IF n < MaxTx THEN n + 1 ELSE n
CanFail == faults < MaxFaults

\* a call fails: every catch block logs the error; the operation's own catch
\* block rethrows it, the catch blocks of the best-effort calls do not
NoFault == [call |-> "none", thrown |-> FALSE]
Fails(call) == faults' = faults + 1 /\ lastFault' = [call |-> call, thrown |-> TRUE]
Swallowed(call) == faults' = faults + 1 /\ lastFault' = [call |-> call, thrown |-> FALSE]

IdleHd == [pc |-> "idle", proposalId |-> << >>, jobs |-> {}]

EngineIdle ==
  /\ clock = 0
  /\ emStatus = [e \in Events |-> CREATED]
  /\ propPeer = [p \in ProposalIds |-> NoVal]
  /\ disputes = {}
  /\ cache = [k \in CacheKeySet |-> NoVal]
  /\ livenessQueue = << >>
  /\ settlementQueue = << >>
  /\ hd = IdleHd
  /\ hdCalls = 0
  /\ finalizeTx = [p \in ProposalIds |-> 0]
  /\ settleTx = [e \in Events |-> 0]
  /\ rewardPosts = [e \in Events |-> FALSE]
  /\ faults = 0
  /\ lastFault = NoFault

SMIdle ==
  /\ smFrom = CREATED
  /\ smTarget = CREATED
  /\ smCtx = [currentState |-> CREATED]
  /\ smOutcome = "pending"
  /\ smCan = << >>

\* no batch-settlement job
BatchIdle ==
  /\ batchJob = "none"
  /\ batchIds = << >>
  /\ batchCalls = << >>
  /\ batchResults = << >>
  /\ batchLog = << >>

\* block numbers the indexer can name
Blocks == (1 - ReplayWindow)..MaxHead
IxIdle == [pc |-> "idle", from |-> 0, to |-> 0, logs |-> << >>]
IndexerFresh ==
  /\ lastIndexedBlock = 0
  /\ ix = IxIdle
  /\ ixOther = IxIdle
  /\ posted = [b \in Blocks |-> 0]
  /\ covered = [b \in Blocks |-> 0]
  /\ ixSeeds = << >>
IndexerIdle == head = 0 /\ IndexerFresh

ProcessIdle == peCalls = << >>
PauseIdle == pauseLog = << >>

OthersIdle == BatchIdle /\ IndexerIdle /\ ProcessIdle /\ PauseIdle

Init == EngineIdle /\ SMIdle /\ OthersIdle

----------------------------------------------------------------------------
(* ResolutionService: helpers *)

\* updateEventState: PATCH {status} to the event-manager, then delete event:{eventId}.
\* The PATCH carries no expected prior status.
PatchedStatus(eventId, state) == [emStatus EXCEPT ![eventId] = state]
\* variant: updateEventState leaves the cache alone
CacheAfterUpdate_Kept(c, eventId) == c
CacheAfterUpdate(c, eventId) == CacheDelete(c, EventKey(eventId))

\* cacheService.get(key): the entry, or a miss. The cache is lossy (TTL 300 s,
\* eviction): a get may miss although an earlier set succeeded.
CacheGet(key) == {cache[key], NoVal}

\* fetchProposalData, given what cache.get returned: the cached value, else
\* GET /proposals/{id}, whose answer is cached.
FetchedProposal(cached, proposalId) ==
  IF cached # NoVal THEN cached ELSE propPeer[proposalId]
CacheAfterProposalFetch(cached, proposalId) ==
  IF cached # NoVal THEN cache
  ELSE CacheSet(cache, ProposalKey(proposalId), propPeer[proposalId])

\* checkFinalizationConditions, given the rows GET /disputes returned.
\* variant: the comparison is <=, so the guard needs now > livenessExpiry
ExpiryReached_Strict(now, livenessExpiry) == ~(now <= livenessExpiry)
ExpiryReached(now, livenessExpiry) == ~(now < livenessExpiry)
StatusAndExpiryOk(proposal) ==
  /\ proposal.status = "liveness"
  /\ ExpiryReached(clock, proposal.livenessExpiry)
checkFinalizationConditions(proposal, disputeRows) ==
  /\ StatusAndExpiryOk(proposal)
  /\ disputeRows = 0
FetchProposalDisputes(proposalId) == IF proposalId \in disputes THEN 1 ELSE 0

----------------------------------------------------------------------------
(* Environment *)

Tick ==
  /\ clock < MaxClock
  /\ clock' = clock + 1
  /\ UNCHANGED <<peerVars, cache, queueVars, callVars, logVars, faultVars, svcVars>>

\* A dispute is raised against a pending proposal: a row appears at the dispute
\* peer and the proposal peer shows the proposal as disputed.
RaiseDispute(p) ==
  /\ propPeer[p] # NoVal
  /\ propPeer[p].status = "liveness"
  /\ disputes' = disputes \cup {p}
  /\ propPeer' = [propPeer EXCEPT ![p].status = "disputed"]
  /\ UNCHANGED <<clock, emStatus, cache, queueVars, callVars, logVars, faultVars, svcVars>>

----------------------------------------------------------------------------
(* ResolutionService.initiateProposal *)

\* BlockchainService.submitProposal: the id and the expiry are taken from the clock.
SubmittedProposal(eventId) ==
  [proposalId |-> ProposalIdOf(eventId, clock),
   eventId |-> eventId,
   status |-> "liveness",
   livenessExpiry |-> clock + LivenessWindow]

\* the proposal peer after the contract accepted the submission
PeerAfterSubmit(eventId) ==
  [propPeer EXCEPT ![ProposalIdOf(eventId, clock)] =
     IF @ = NoVal THEN SubmittedProposal(eventId) ELSE @]

\* scheduleLivenessMonitoring
LivenessDelay(livenessExpiry) == Max(0, livenessExpiry - clock)
ScheduledLiveness(queue, proposal) ==
  Append(queue, NewJob([proposalId |-> proposal.proposalId],
                       LivenessDelay(proposal.livenessExpiry)))

\* submitProposalToChain, scheduleLivenessMonitoring, updateEventState(LIVENESS);
\* the first call that fails ends the operation.
SubmittedIds == {p \in ProposalIds : propPeer[p] # NoVal}
InitiateProposal(e) ==
  /\ Len(livenessQueue) < MaxSubmissions
  /\ \/ ProposalIdOf(e, clock) \in SubmittedIds
     \/ Cardinality(SubmittedIds) < MaxProposalIds
  /\ \/ /\ propPeer' = PeerAfterSubmit(e)
        /\ livenessQueue' = ScheduledLiveness(livenessQueue, SubmittedProposal(e))
        /\ emStatus' = PatchedStatus(e, LIVENESS)
        /\ cache' = CacheAfterUpdate(cache, e)
        /\ UNCHANGED faultVars
     \/ /\ CanFail            \* the submission fails
        /\ Fails("submitProposal")
        /\ UNCHANGED <<propPeer, livenessQueue, emStatus, cache>>
     \/ /\ CanFail            \* the enqueue fails
        /\ Fails("livenessQueue.add")
        /\ propPeer' = PeerAfterSubmit(e)
        /\ UNCHANGED <<livenessQueue, emStatus, cache>>
     \/ /\ CanFail            \* the PATCH fails
        /\ Fails("patch")
        /\ propPeer' = PeerAfterSubmit(e)
        /\ livenessQueue' = ScheduledLiveness(livenessQueue, SubmittedProposal(e))
        /\ UNCHANGED <<emStatus, cache>>
  /\ UNCHANGED <<clock, disputes, settlementQueue, callVars, logVars, svcVars>>

----------------------------------------------------------------------------
(* ResolutionService.handleDisputeDetected *)

\* pauseLivenessMonitoring: getJobs(['delayed', 'waiting'])
PendingJobs(queue) == {j \in 1..Len(queue) : queue[j].state \in Pending}

\* fetchProposalData, updateEventState(DISPUTED), notifyArbitrators (a failing
\* POST is logged and swallowed), and the getJobs of pauseLivenessMonitoring.
HandleDisputeDetected_begin(p) ==
  /\ hd.pc = "idle"
  /\ hdCalls < MaxDisputeCalls
  /\ propPeer[p] # NoVal
  /\ p \in disputes
  /\ hdCalls' = hdCalls + 1
  /\ \E cached \in CacheGet(ProposalKey(p)) :
       LET proposal == FetchedProposal(cached, p)
       IN  \/ /\ emStatus' = PatchedStatus(proposal.eventId, DISPUTED)
              /\ cache' = CacheAfterUpdate(CacheAfterProposalFetch(cached, p), proposal.eventId)
              /\ hd' = [pc |-> "remove", proposalId |-> p, jobs |-> PendingJobs(livenessQueue)]
              /\ \/ UNCHANGED faultVars
                 \/ CanFail /\ Swallowed("notify")     \* the notification fails
           \/ /\ CanFail            \* GET /proposals fails
              /\ cached = NoVal
              /\ Fails("getProposal")
              /\ UNCHANGED <<emStatus, cache, hd>>
           \/ /\ CanFail            \* the PATCH fails
              /\ Fails("patch")
              /\ cache' = CacheAfterProposalFetch(cached, p)
              /\ UNCHANGED <<emStatus, hd>>
  /\ UNCHANGED <<clock, propPeer, disputes, queueVars, logVars, svcVars>>

\* job.remove() for the jobs of the snapshot that carry the proposalId; a job
\* that is no longer delayed or waiting is not removed. Then the call returns.
\* variant: the loop removes nothing
RemoveJobs_Skipped(queue, jobs, proposalId) == queue
RemoveJobs(queue, jobs, proposalId) ==
  [j \in 1..Len(queue) |->
     IF j \in jobs /\ queue[j].data.proposalId = proposalId /\ queue[j].state \in Pending
       THEN JobRemoved(queue[j])
       ELSE queue[j]]
HandleDisputeDetected_remove ==
  /\ hd.pc = "remove"
  /\ livenessQueue' = RemoveJobs(livenessQueue, hd.jobs, hd.proposalId)
  /\ hd' = IdleHd
  /\ UNCHANGED <<clock, peerVars, cache, settlementQueue, hdCalls, logVars, faultVars, svcVars>>

----------------------------------------------------------------------------
(* Queue 'liveness-monitoring' and LivenessProcessor.handleLivenessCheck,     *)
(* which runs ResolutionService.finalizeProposal(job.data.proposalId)         *)

LJobs == 1..Len(livenessQueue)
LJob(j) == livenessQueue[j]
SetLJob(j, job) == livenessQueue' = [livenessQueue EXCEPT ![j] = job]
\* variant: the processor's catch block logs the error and does not rethrow it
LivenessThrows_Swallowed(j) == SetLJob(j, JobCompletes(LJob(j)))
\* handleLivenessCheck rethrows what finalizeProposal threw: the job fails
LivenessThrows(j) == SetLJob(j, JobThrows(LJob(j), LivenessAttempts, LivenessBackoff))
LivenessAt(j, pc) == LJob(j).state = "active" /\ LJob(j).pc = pc

\* the delay of a delayed job has elapsed: it moves to the waiting list
JobPromoted(job) == [job EXCEPT !.state = "waiting", !.fireAt = 0]
LivenessPromote(j) ==
  /\ LJob(j).state = "delayed"
  /\ clock >= LJob(j).fireAt
  /\ SetLJob(j, JobPromoted(LJob(j)))
  /\ UNCHANGED <<clock, peerVars, cache, settlementQueue, callVars, logVars, faultVars, svcVars>>

\* a worker takes a waiting job
LivenessStart(j) ==
  /\ LJob(j).state = "waiting"
  /\ SetLJob(j, JobStarts(LJob(j), "check"))
  /\ UNCHANGED <<clock, peerVars, cache, settlementQueue, callVars, logVars, faultVars, svcVars>>

\* fetchProposalData and checkFinalizationConditions;
\* 'Finalization conditions not met' when the latter is false
FinalizeProposal_check(j) ==
  /\ LivenessAt(j, "check")
  /\ \E cached \in CacheGet(ProposalKey(LJob(j).data.proposalId)) :
       LET p == LJob(j).data.proposalId
           proposal == FetchedProposal(cached, p)
       IN  \/ /\ cache' = CacheAfterProposalFetch(cached, p)
              /\ UNCHANGED faultVars
              /\ IF checkFinalizationConditions(proposal, FetchProposalDisputes(proposal.proposalId))
                   THEN SetLJob(j, [LJob(j) EXCEPT !.pc = "chain", !.local = proposal])
                   ELSE LivenessThrows(j)
           \/ /\ CanFail        \* GET /proposals fails
              /\ cached = NoVal
              /\ Fails("getProposal")
              /\ LivenessThrows(j)
              /\ UNCHANGED cache
           \/ /\ CanFail        \* GET /disputes fails
              /\ StatusAndExpiryOk(proposal)
              /\ Fails("getDisputes")
              /\ LivenessThrows(j)
              /\ cache' = CacheAfterProposalFetch(cached, p)
  /\ UNCHANGED <<clock, peerVars, settlementQueue, callVars, logVars, svcVars>>

\* variant: the settle-event job is never enqueued
ScheduledSettlement_Dropped(queue, eventId) == queue
\* scheduleSettlement
ScheduledSettlement(queue, eventId) ==
  Append(queue, NewJob([eventId |-> eventId], SettlementDelay))

\* the proposal peer after the contract finalized the proposal
PeerAfterFinalize(p) == [propPeer EXCEPT ![p].status = "finalized"]

\* BlockchainService.finalizeProposal
FinalizeProposal_chain(j) ==
  /\ LivenessAt(j, "chain")
  /\ LET p == LJob(j).data.proposalId
     IN  \/ /\ finalizeTx' = [finalizeTx EXCEPT ![p] = Bump(@)]
            /\ propPeer' = PeerAfterFinalize(p)
            /\ SetLJob(j, [LJob(j) EXCEPT !.pc = "patch"])
            /\ UNCHANGED faultVars
         \/ /\ CanFail        \* the transaction fails
            /\ Fails("finalizeProposal")
            /\ LivenessThrows(j)
            /\ UNCHANGED <<finalizeTx, propPeer>>
  /\ UNCHANGED <<clock, emStatus, disputes, cache, settlementQueue, callVars, settleTx,
                 rewardPosts, svcVars>>

\* updateEventState(RESOLVED), then scheduleSettlement; the job completes,
\* or throws at the first call that fails.
FinalizeProposal_patch(j) ==
  /\ LivenessAt(j, "patch")
  /\ LET e == LJob(j).local.eventId
     IN  \/ /\ emStatus' = PatchedStatus(e, RESOLVED)
            /\ cache' = CacheAfterUpdate(cache, e)
            /\ settlementQueue' = ScheduledSettlement(settlementQueue, e)
            /\ SetLJob(j, JobCompletes(LJob(j)))
            /\ UNCHANGED faultVars
         \/ /\ CanFail        \* the PATCH fails
            /\ Fails("patch")
            /\ LivenessThrows(j)
            /\ UNCHANGED <<emStatus, cache, settlementQueue>>
         \/ /\ CanFail        \* the enqueue fails
            /\ Fails("settlementQueue.add")
            /\ emStatus' = PatchedStatus(e, RESOLVED)
            /\ cache' = CacheAfterUpdate(cache, e)
            /\ LivenessThrows(j)
            /\ UNCHANGED settlementQueue
  /\ UNCHANGED <<clock, propPeer, disputes, callVars, logVars, svcVars>>

----------------------------------------------------------------------------
(* Queue 'settlement-processing' and SettlementProcessor.handleSettlement,    *)
(* which runs ResolutionService.settleEvent(job.data.eventId)                 *)

SJobs == 1..Len(settlementQueue)
SJob(k) == settlementQueue[k]
SetSJob(k, job) == settlementQueue' = [settlementQueue EXCEPT ![k] = job]
\* variant: the processor's catch block logs the error and does not rethrow it
SettlementThrows_Swallowed(k) == SetSJob(k, JobCompletes(SJob(k)))
SettlementThrows(k) == SetSJob(k, JobThrows(SJob(k), SettlementAttempts, SettlementBackoff))
SettlementAt(k, pc) == SJob(k).state = "active" /\ SJob(k).pc = pc

SettlementPromote(k) ==
  /\ SJob(k).state = "delayed"
  /\ clock >= SJob(k).fireAt
  /\ SetSJob(k, JobPromoted(SJob(k)))
  /\ UNCHANGED <<clock, peerVars, cache, livenessQueue, callVars, logVars, faultVars, svcVars>>

SettlementStart(k) ==
  /\ SJob(k).state = "waiting"
  /\ SetSJob(k, JobStarts(SJob(k), "get"))
  /\ UNCHANGED <<clock, peerVars, cache, livenessQueue, callVars, logVars, faultVars, svcVars>>

\* the check of settleEvent on the event fetchEventData returned
SettleGuard(event) == event.status = RESOLVED
AfterEventFetch(k, event) ==
  IF SettleGuard(event)
    THEN SetSJob(k, [SJob(k) EXCEPT !.pc = "chain", !.local = event])
    ELSE SettlementThrows(k)

\* fetchEventData: cache.get; on a miss, GET /events/{id}
SettleEvent_get(k) ==
  /\ SettlementAt(k, "get")
  /\ \E cached \in CacheGet(EventKey(SJob(k).data.eventId)) :
       IF cached # NoVal
         THEN AfterEventFetch(k, cached) /\ UNCHANGED faultVars
         ELSE \/ /\ SetSJob(k, [SJob(k) EXCEPT !.pc = "set",
                                  !.local = [status |-> emStatus[SJob(k).data.eventId]]])
                 /\ UNCHANGED faultVars
              \/ /\ CanFail
                 /\ Fails("getEvent")
                 /\ SettlementThrows(k)
  /\ UNCHANGED <<clock, peerVars, cache, livenessQueue, callVars, logVars, svcVars>>

\* fetchEventData: cache.set of the GET's answer, then the status check
SettleEvent_set(k) ==
  /\ SettlementAt(k, "set")
  /\ cache' = CacheSet(cache, EventKey(SJob(k).data.eventId), SJob(k).local)
  /\ AfterEventFetch(k, SJob(k).local)
  /\ UNCHANGED <<clock, peerVars, livenessQueue, callVars, logVars, faultVars, svcVars>>

\* cleanupEventData
cleanupEventData(c, eventId) ==
  LET c1 == CacheDelete(c, EventKey(eventId))
  IN  CacheDeleteAll(c1, CacheKeysProposalOfEvent(c1, eventId))

\* BlockchainService.settleEvent
SettleEvent_chain(k) ==
  /\ SettlementAt(k, "chain")
  /\ \/ /\ settleTx' = [settleTx EXCEPT ![SJob(k).data.eventId] = Bump(@)]
        /\ SetSJob(k, [SJob(k) EXCEPT !.pc = "patch"])
        /\ UNCHANGED faultVars
     \/ /\ CanFail        \* the transaction fails
        /\ Fails("settleEvent")
        /\ SettlementThrows(k)
        /\ UNCHANGED settleTx
  /\ UNCHANGED <<clock, peerVars, cache, livenessQueue, callVars, finalizeTx, rewardPosts,
                 svcVars>>

\* updateEventState(SETTLED), cleanupEventData; then settleEvent returns and
\* the job completes
SettledAndPurged(k, e) ==
  /\ emStatus' = PatchedStatus(e, SETTLED)
  /\ cache' = cleanupEventData(CacheAfterUpdate(cache, e), e)
  /\ SetSJob(k, JobCompletes(SJob(k)))

\* variant: the catch block of distributeRewards rethrows
DistributeRewardsFailed_Rethrown(k, e) ==
  /\ Fails("distribute")
  /\ SettlementThrows(k)
  /\ UNCHANGED <<emStatus, cache, rewardPosts>>
\* distributeRewards when the POST fails: the catch block logs the error and
\* settleEvent goes on
DistributeRewardsFailed(k, e) ==
  /\ Swallowed("distribute")
  /\ SettledAndPurged(k, e)
  /\ UNCHANGED rewardPosts

\* distributeRewards, updateEventState(SETTLED), cleanupEventData
SettleEvent_patch(k) ==
  /\ SettlementAt(k, "patch")
  /\ LET e == SJob(k).data.eventId
     IN  \/ /\ rewardPosts' = [rewardPosts EXCEPT ![e] = TRUE]
            /\ SettledAndPurged(k, e)
            /\ UNCHANGED faultVars
         \/ /\ CanFail        \* the reward POST fails
            /\ DistributeRewardsFailed(k, e)
         \/ /\ CanFail        \* the PATCH fails
            /\ Fails("patch")
            /\ rewardPosts' = [rewardPosts EXCEPT ![e] = TRUE]
            /\ SettlementThrows(k)
            /\ UNCHANGED <<emStatus, cache>>
         \/ /\ faults + 2 <= MaxFaults   \* the reward POST and the PATCH fail
            /\ faults' = faults + 2
            /\ lastFault' = [call |-> "patch", thrown |-> TRUE]
            /\ SettlementThrows(k)
            /\ UNCHANGED <<emStatus, cache, rewardPosts>>
  /\ UNCHANGED <<clock, propPeer, disputes, livenessQueue, callVars, finalizeTx, settleTx,
                 svcVars>>

----------------------------------------------------------------------------

Next ==
  \/ Tick
  \/ \E p \in ProposalIds : RaiseDispute(p)
  \/ \E e \in Events : InitiateProposal(e)
  \/ \E p \in ProposalIds : HandleDisputeDetected_begin(p)
  \/ HandleDisputeDetected_remove
  \/ \E j \in LJobs : LivenessPromote(j)
  \/ \E j \in LJobs : LivenessStart(j)
  \/ \E j \in LJobs : FinalizeProposal_check(j)
  \/ \E j \in LJobs : FinalizeProposal_chain(j)
  \/ \E j \in LJobs : FinalizeProposal_patch(j)
  \/ \E k \in SJobs : SettlementPromote(k)
  \/ \E k \in SJobs : SettlementStart(k)
  \/ \E k \in SJobs : SettleEvent_get(k)
  \/ \E k \in SJobs : SettleEvent_set(k)
  \/ \E k \in SJobs : SettleEvent_chain(k)
  \/ \E k \in SJobs : SettleEvent_patch(k)

Spec == Init /\ [][Next]_vars

\* The liveness timer of one proposal on its own: a single check-liveness job
\* under disputes, handleDisputeDetected and failing calls, without the
\* settlement workers, whose steps touch neither the liveness queue nor
\* anything finalizeProposal reads.
InitiateSingleProposal(e) ==
  /\ Len(livenessQueue) = 0
  /\ InitiateProposal(e)

NextTimer ==
  \/ Tick
  \/ \E p \in ProposalIds : RaiseDispute(p)
  \/ \E e \in Events : InitiateSingleProposal(e)
  \/ \E p \in ProposalIds : HandleDisputeDetected_begin(p)
  \/ HandleDisputeDetected_remove
  \/ \E j \in LJobs : LivenessPromote(j)
  \/ \E j \in LJobs : LivenessStart(j)
  \/ \E j \in LJobs : FinalizeProposal_check(j)
  \/ \E j \in LJobs : FinalizeProposal_chain(j)
  \/ \E j \in LJobs : FinalizeProposal_patch(j)

SpecTimer == Init /\ [][NextTimer]_vars

\* The life of one proposal: its liveness timer, the settlement worker, disputes,
\* handleDisputeDetected and failing calls.
NextLife ==
  \/ NextTimer
  \/ \E k \in SJobs : SettlementPromote(k)
  \/ \E k \in SJobs : SettlementStart(k)
  \/ \E k \in SJobs : SettleEvent_get(k)
  \/ \E k \in SJobs : SettleEvent_set(k)
  \/ \E k \in SJobs : SettleEvent_chain(k)
  \/ \E k \in SJobs : SettleEvent_patch(k)

SpecLife == Init /\ [][NextLife]_vars

InitSM ==
  /\ EngineIdle
  /\ OthersIdle
  /\ smFrom \in ResolutionState
  /\ smTarget \in ResolutionState
  /\ smCtx = [currentState |-> smFrom]
  /\ smOutcome = "pending"
  /\ smCan = << >>

SMTransition ==
  /\ smOutcome = "pending"
  /\ LET r == transition(smCtx, smTarget)
     IN  /\ smCtx' = r.ctx
         /\ smOutcome' = r.outcome
  /\ UNCHANGED <<smFrom, smTarget, smCan, engineVars, otherVars>>

SMCanTransition ==
  /\ smCan = << >>
  /\ smCan' = <<canTransition(smFrom, smTarget)>>
  /\ UNCHANGED <<smFrom, smTarget, smCtx, smOutcome, engineVars, otherVars>>

NextSM == SMTransition \/ SMCanTransition

SpecSM == InitSM /\ [][NextSM]_vars

\* C3: transition succeeds and sets currentState to the target, and
\* canTransition returns true, exactly for the edges of the table; every other
\* pair throws and leaves the context unchanged, and canTransition is false.
C3_TableDecidesTransition ==
  /\ smOutcome # "pending" =>
       IF IsEdge(smFrom, smTarget)
         THEN smOutcome = "ok" /\ smCtx.currentState = smTarget
         ELSE smOutcome = "invalid" /\ smCtx.currentState = smFrom
  /\ smCan # << >> => (smCan[1] = IsEdge(smFrom, smTarget))

----------------------------------------------------------------------------
(* Happy path: one proposal per event, no dispute, no failing call, workers   *)
(* and the clock scheduled fairly                                             *)

InitHappy ==
  /\ clock = 0
  /\ emStatus = [e \in Events |-> CREATED]
  /\ propPeer = [p \in ProposalIds |-> NoVal]
  /\ disputes = {}
  /\ cache = [k \in CacheKeySet |-> NoVal]
  /\ livenessQueue = << >>
  /\ settlementQueue = << >>
  /\ hd = IdleHd
  /\ hdCalls = MaxDisputeCalls
  /\ finalizeTx = [p \in ProposalIds |-> 0]
  /\ settleTx = [e \in Events |-> 0]
  /\ rewardPosts = [e \in Events |-> FALSE]
  /\ faults = MaxFaults
  /\ lastFault = NoFault
  /\ SMIdle
  /\ OthersIdle

\* the first proposal of an event, early enough for its timers to fit the clock
InitiateFirstProposal(e) ==
  /\ Len(livenessQueue) = 0
  /\ clock + LivenessWindow + SettlementDelay <= MaxClock
  /\ InitiateProposal(e)

LivenessWorker ==
  \E j \in LJobs : LivenessPromote(j) \/ LivenessStart(j) \/ FinalizeProposal_check(j)
                     \/ FinalizeProposal_chain(j) \/ FinalizeProposal_patch(j)
SettlementWorker ==
  \E k \in SJobs : SettlementPromote(k) \/ SettlementStart(k) \/ SettleEvent_get(k)
                     \/ SettleEvent_set(k) \/ SettleEvent_chain(k) \/ SettleEvent_patch(k)

\* the clock stops short of its bound while a finalization is outstanding, so
\* that the settle-event delay still fits
Outstanding(job) == job.state \in {"delayed", "waiting", "active"}
TickHappy ==
  /\ \A j \in LJobs : Outstanding(LJob(j)) => clock + 1 + SettlementDelay <= MaxClock
  /\ Tick

NextHappy ==
  \/ TickHappy
  \/ \E e \in Events : InitiateFirstProposal(e)
  \/ LivenessWorker
  \/ SettlementWorker

SpecHappy ==
  /\ InitHappy
  /\ [][NextHappy]_vars
  /\ WF_vars(TickHappy)
  /\ WF_vars(LivenessWorker)
  /\ WF_vars(SettlementWorker)

----------------------------------------------------------------------------
(* SettlementProcessor.handleBatchSettlement. What settleEvent does for one  *)
(* id is the settlement worker above; here each invocation is a promise that *)
(* is fulfilled or rejected.                                                  *)

BatchEventIds == {"e1", "e2"}
RECURSIVE SeqsUpTo(_, _)
SeqsUpTo(S, n) ==
  IF n = 0 THEN {<< >>}
  ELSE LET shorter == SeqsUpTo(S, n - 1)
       IN  shorter \cup {Append(q, x) : q \in shorter, x \in S}

InitBatch ==
  /\ EngineIdle
  /\ SMIdle
  /\ IndexerIdle
  /\ ProcessIdle
  /\ PauseIdle
  /\ batchJob = "waiting"
  /\ batchIds \in SeqsUpTo(BatchEventIds, MaxBatch)
  /\ batchCalls = << >>
  /\ batchResults = << >>
  /\ batchLog = << >>

\* job.data.eventIds.map((eventId) => settleEvent(eventId)): one invocation
\* per element, each returning a promise
HandleBatchSettlement_map ==
  /\ batchJob = "waiting"
  /\ batchJob' = "active"
  /\ batchCalls' = batchIds
  /\ batchResults' = [i \in 1..Len(batchIds) |-> "pending"]
  /\ UNCHANGED <<batchIds, batchLog, engineVars, smVars, ixVars, peCalls, pauseLog>>

\* the settleEvent invocation of element i returns or throws
BatchSettleEventSettles(i) ==
  /\ batchJob = "active"
  /\ batchResults[i] = "pending"
  /\ \E r \in {"fulfilled", "rejected"} : batchResults' = [batchResults EXCEPT ![i] = r]
  /\ UNCHANGED <<batchJob, batchIds, batchCalls, batchLog, engineVars, smVars, ixVars, peCalls, pauseLog>>

\* variant: the handler goes on as soon as one promise has settled
AllSettled_First(results) == \E i \in 1..Len(results) : results[i] # "pending"
\* await Promise.allSettled(...): every promise is fulfilled or rejected
AllSettled(results) == \A i \in 1..Len(results) : results[i] # "pending"
CountOf(results, status) == Cardinality({i \in 1..Len(results) : results[i] = status})

\* the counts are logged and the handler returns
HandleBatchSettlement_log ==
  /\ batchJob = "active"
  /\ AllSettled(batchResults)
  /\ batchLog' = << [successful |-> CountOf(batchResults, "fulfilled"),
                     failed |-> CountOf(batchResults, "rejected")] >>
  /\ batchJob' = "completed"
  /\ UNCHANGED <<batchIds, batchCalls, batchResults, engineVars, smVars, ixVars, peCalls, pauseLog>>

NextBatch ==
  \/ HandleBatchSettlement_map
  \/ \E i \in 1..Len(batchResults) : BatchSettleEventSettles(i)
  \/ HandleBatchSettlement_log

SpecBatch == InitBatch /\ [][NextBatch]_vars

----------------------------------------------------------------------------
(* IndexerService: one indexNewBlocks tick at a time. Every block from 1 on   *)
(* carries one EventCreated log.                                              *)

HasLog(b) == b >= 1
\* queryFilter(filter, fromBlock, toBlock): the logs of the range, in order
RECURSIVE QueryFilter(_, _)
QueryFilter(fromBlock, toBlock) ==
  IF fromBlock > toBlock THEN << >>
  ELSE (IF HasLog(fromBlock) THEN <<fromBlock>> ELSE << >>) \o QueryFilter(fromBlock + 1, toBlock)

BumpPost(n) == IF n < MaxPosts THEN n + 1 ELSE n

\* the chain carries the deployed contracts, so its head is past the genesis block
InitIndexer ==
  /\ EngineIdle
  /\ SMIdle
  /\ BatchIdle
  /\ ProcessIdle
  /\ PauseIdle
  /\ head \in 1..MaxHead
  /\ IndexerFresh

ChainAdvance ==
  /\ head < MaxHead
  /\ head' = head + 1
  /\ UNCHANGED <<lastIndexedBlock, ix, ixOther, posted, covered, ixSeeds, engineVars, smVars,
                 batchVars, peCalls, pauseLog>>

\* variant: every tick seeds
Seeded_Always(currentBlock) == currentBlock - ReplayWindow
\* lastIndexedBlock after the seeding branch of indexNewBlocks
Seeded(currentBlock) ==
  IF lastIndexedBlock = 0 THEN currentBlock - ReplayWindow ELSE lastIndexedBlock

\* getBlockNumber, the seeding, and the test currentBlock > lastIndexedBlock
IndexNewBlocks_begin ==
  /\ ix.pc = "idle"
  /\ \/ /\ lastIndexedBlock' = Seeded(head)
        /\ ixSeeds' = IF lastIndexedBlock = 0 /\ Len(ixSeeds) < MaxSeeds
                         THEN Append(ixSeeds, Seeded(head)) ELSE ixSeeds
        /\ ix' = IF head > Seeded(head)
                    THEN [pc |-> "query", from |-> Seeded(head) + 1, to |-> head, logs |-> << >>]
                    ELSE IxIdle
        /\ UNCHANGED faultVars
     \/ /\ CanFail            \* getBlockNumber fails: caught and logged
        /\ Swallowed("getBlockNumber")
        /\ UNCHANGED <<lastIndexedBlock, ixSeeds, ix>>
  /\ UNCHANGED <<head, ixOther, posted, covered, clock, peerVars, cache, queueVars, callVars, logVars,
                 smVars, batchVars, peCalls, pauseLog>>

\* processBlocks: queryFilter; an error ends the tick in the catch block of
\* indexNewBlocks, before lastIndexedBlock is assigned
ProcessBlocks_query ==
  /\ ix.pc = "query"
  /\ \/ /\ ix' = [ix EXCEPT !.pc = "post", !.logs = QueryFilter(ix.from, ix.to)]
        /\ UNCHANGED faultVars
     \/ /\ CanFail
        /\ Swallowed("queryFilter")
        /\ ix' = IxIdle
  /\ UNCHANGED <<head, lastIndexedBlock, ixOther, posted, covered, ixSeeds, clock, peerVars, cache,
                 queueVars, callVars, logVars, smVars, batchVars, peCalls, pauseLog>>

\* handleEventCreated when the POST fails: the catch block logs the error and
\* the loop goes on with the next log
PostFailed == ix' = [ix EXCEPT !.logs = Tail(@)]

\* handleEventCreated for the next log of the range
HandleEventCreated ==
  /\ ix.pc = "post"
  /\ ix.logs # << >>
  /\ \/ /\ posted' = [posted EXCEPT ![Head(ix.logs)] = BumpPost(@)]
        /\ ix' = [ix EXCEPT !.logs = Tail(@)]
        /\ UNCHANGED faultVars
     \/ /\ CanFail
        /\ Swallowed("postEvent")
        /\ PostFailed
        /\ UNCHANGED posted
  /\ UNCHANGED <<head, lastIndexedBlock, ixOther, covered, ixSeeds, clock, peerVars, cache, queueVars,
                 callVars, logVars, smVars, batchVars, peCalls, pauseLog>>

CoverRange(cov, fromBlock, toBlock) ==
  [b \in Blocks |-> IF fromBlock <= b /\ b <= toBlock THEN BumpPost(cov[b]) ELSE cov[b]]

\* processBlocks returned: this.lastIndexedBlock = currentBlock
IndexNewBlocks_end ==
  /\ ix.pc = "post"
  /\ ix.logs = << >>
  /\ lastIndexedBlock' = ix.to
  /\ covered' = CoverRange(covered, ix.from, ix.to)
  /\ ix' = IxIdle
  /\ UNCHANGED <<head, ixOther, posted, ixSeeds, engineVars, smVars, batchVars, peCalls, pauseLog>>

NextIndexer ==
  \/ ChainAdvance
  \/ IndexNewBlocks_begin
  \/ ProcessBlocks_query
  \/ HandleEventCreated
  \/ IndexNewBlocks_end

SpecIndexer == InitIndexer /\ [][NextIndexer]_vars

\* Two ticks at a time: the cron fires indexNewBlocks every 10 s whether or not
\* the last call has returned. ix is the tick whose continuation runs next,
\* ixOther the one that waits at its await.
TickSwitch ==
  /\ ix # ixOther
  /\ ix' = ixOther
  /\ ixOther' = ix
  /\ UNCHANGED <<head, lastIndexedBlock, posted, covered, ixSeeds, engineVars, smVars,
                 batchVars, peCalls, pauseLog>>

NextOverlap ==
  \/ NextIndexer
  \/ TickSwitch

SpecOverlap == InitIndexer /\ [][NextOverlap]_vars

----------------------------------------------------------------------------
(* ResolutionService.processEvent, called repeatedly while the event-manager *)
(* record does not change. The record is modelled by its status.             *)

\* the cache holds nothing, or what GET /events/{id} last answered
InitProcess ==
  /\ clock = 0
  /\ emStatus \in [Events -> ResolutionState]
  /\ propPeer = [p \in ProposalIds |-> NoVal]
  /\ disputes = {}
  /\ \E entries \in SUBSET Events :
       cache = [k \in CacheKeySet |->
                  IF \E e \in entries : k = EventKey(e)
                    THEN [status |-> emStatus[k[2]]] ELSE NoVal]
  /\ livenessQueue = << >>
  /\ settlementQueue = << >>
  /\ hd = IdleHd
  /\ hdCalls = 0
  /\ finalizeTx = [p \in ProposalIds |-> 0]
  /\ settleTx = [e \in Events |-> 0]
  /\ rewardPosts = [e \in Events |-> FALSE]
  /\ faults = 0
  /\ lastFault = NoFault
  /\ SMIdle
  /\ BatchIdle
  /\ IndexerIdle
  /\ ProcessIdle
  /\ PauseIdle

\* the context processEvent builds from the fetched event, handed to
\* stateMachine.transition(context, event.status)
Replayed(eventId, event) ==
  LET context == [eventId |-> eventId, currentState |-> event.status]
      r == transition(context, event.status)
  IN  [eventId |-> eventId, outcome |-> r.outcome, context |-> r.ctx]

\* processEvent: fetchEventData, the context, the transition; it returns the
\* context or rethrows
ProcessEvent(e) ==
  /\ Len(peCalls) < MaxProcessCalls
  /\ \E cached \in CacheGet(EventKey(e)) :
       IF cached # NoVal
         THEN /\ peCalls' = Append(peCalls, Replayed(e, cached))
              /\ UNCHANGED <<cache, faultVars>>
         ELSE \/ /\ cache' = CacheSet(cache, EventKey(e), [status |-> emStatus[e]])
                 /\ peCalls' = Append(peCalls, Replayed(e, [status |-> emStatus[e]]))
                 /\ UNCHANGED faultVars
              \/ /\ CanFail        \* GET /events fails
                 /\ Fails("getEvent")
                 /\ peCalls' = Append(peCalls, [eventId |-> e, outcome |-> "threw", context |-> NoVal])
                 /\ UNCHANGED cache
  /\ UNCHANGED <<clock, peerVars, queueVars, callVars, logVars, smVars, batchVars, ixVars, pauseLog>>

NextProcess == \E e \in Events : ProcessEvent(e)

SpecProcess == InitProcess /\ [][NextProcess]_vars

----------------------------------------------------------------------------
(* ResolutionService.pauseLivenessMonitoring, called repeatedly on a queue    *)
(* nothing else touches                                                       *)

PauseProposalIds == {ProposalIdOf("e1", 0), ProposalIdOf("e1", 1)}
JobStates == {"delayed", "waiting", "active", "completed", "failed"}

\* a check-liveness job in the given state
QueuedJob(proposalId, state) ==
  [data |-> [proposalId |-> proposalId],
   state |-> state,
   fireAt |-> IF state = "delayed" THEN LivenessWindow ELSE 0,
   attemptsMade |-> 0,
   pc |-> IF state = "active" THEN "check" ELSE "-",
   local |-> NoVal]

InitPause ==
  /\ clock = 0
  /\ emStatus = [e \in Events |-> CREATED]
  /\ propPeer = [p \in ProposalIds |-> NoVal]
  /\ disputes = {}
  /\ cache = [k \in CacheKeySet |-> NoVal]
  /\ livenessQueue \in SeqsUpTo({QueuedJob(p, st) : p \in PauseProposalIds, st \in JobStates},
                                MaxPauseJobs)
  /\ settlementQueue = << >>
  /\ hd = IdleHd
  /\ hdCalls = 0
  /\ finalizeTx = [p \in ProposalIds |-> 0]
  /\ settleTx = [e \in Events |-> 0]
  /\ rewardPosts = [e \in Events |-> FALSE]
  /\ faults = 0
  /\ lastFault = NoFault
  /\ SMIdle
  /\ BatchIdle
  /\ IndexerIdle
  /\ ProcessIdle
  /\ PauseIdle

\* pauseLivenessMonitoring(proposalId): getJobs(['delayed', 'waiting']), then
\* job.remove() for every job of the answer that carries the proposalId
PauseLivenessMonitoring(proposalId) ==
  /\ Len(pauseLog) < MaxPauseCalls
  /\ LET after == RemoveJobs(livenessQueue, PendingJobs(livenessQueue), proposalId)
     IN  /\ livenessQueue' = after
         /\ pauseLog' = Append(pauseLog, [proposalId |-> proposalId,
                                          before |-> livenessQueue,
                                          after |-> after])
  /\ UNCHANGED <<clock, peerVars, cache, settlementQueue, callVars, logVars, faultVars,
                 smVars, batchVars, ixVars, peCalls>>

NextPause == \E p \in PauseProposalIds : PauseLivenessMonitoring(p)

SpecPause == InitPause /\ [][NextPause]_vars

----------------------------------------------------------------------------
(* Properties *)

JobsOf(queue, proposalId) == {j \in 1..Len(queue) : queue[j].data.proposalId = proposalId}
PendingOf(queue, proposalId) == {j \in JobsOf(queue, proposalId) : queue[j].state \in Pending}

\* C1: every change of an event's status at the event-manager is an edge of
\* the transition table.
C1_WritesFollowTable ==
  [][\A e \in Events : emStatus'[e] # emStatus[e] => IsEdge(emStatus[e], emStatus'[e])]_vars

\* C2: once an event's status is SETTLED, no step changes it.
C2_SettledIsAbsorbing ==
  [][\A e \in Events : emStatus[e] = SETTLED => emStatus'[e] = SETTLED]_vars

\* the step confirms a finalize transaction of job j
FinalizeTxIssued(j) ==
  /\ LivenessAt(j, "chain")
  /\ finalizeTx'[LJob(j).data.proposalId] # finalizeTx[LJob(j).data.proposalId]

\* I-F1 on the authoritative records, now
FinalizationGate(p) ==
  /\ propPeer[p].status = "liveness"
  /\ clock >= propPeer[p].livenessExpiry
  /\ p \notin disputes

\* C4: whenever the finalize transaction is issued, the proposal's status is
\* "liveness", the expiry has passed and the proposal has no dispute.
C4_FinalizeTxUnderGate ==
  [][\A j \in LJobs : FinalizeTxIssued(j) => FinalizationGate(LJob(j).data.proposalId)]_vars

\* C5: when handleDisputeDetected returns, the queue holds no delayed or
\* waiting check-liveness job of its proposal.
C5_NoPendingJobAtReturn ==
  [][(hd.pc = "remove" /\ hd'.pc = "idle") =>
        PendingOf(livenessQueue', hd.proposalId) = {}]_vars

\* C6: for every proposalId the queue holds at most one delayed or waiting
\* check-liveness job.
C6_SingleTimer ==
  \A p \in ProposalIds : Cardinality(PendingOf(livenessQueue, p)) <= 1

\* the step is finalizeProposal of job j failing on its guard while the
\* proposal has a dispute
GuardFailsOnDispute(j) ==
  /\ LivenessAt(j, "check")
  /\ LJob(j).data.proposalId \in disputes
  /\ faults' = faults
  /\ livenessQueue'[j] # livenessQueue[j]

\* C7 as stated: a check-liveness job whose finalizeProposal fails because a
\* dispute exists does not return to the delayed or waiting state.
C7_NotRetried ==
  [][\A j \in LJobs : GuardFailsOnDispute(j) => livenessQueue'[j].state \notin Pending]_vars

\* C7 amended: such a job is retried like any failing job: it goes back to
\* delayed with the exponential backoff until the third failure, which
\* leaves it failed; it never passes the guard.
C7_RetriedUntilExhausted ==
  [][\A j \in LJobs : GuardFailsOnDispute(j) =>
        LET made == LJob(j).attemptsMade + 1
        IN  /\ livenessQueue'[j].attemptsMade = made
            /\ IF made < LivenessAttempts
                 THEN /\ livenessQueue'[j].state = "delayed"
                      /\ livenessQueue'[j].fireAt = clock + LivenessBackoff * Pow2(made - 1)
                 ELSE livenessQueue'[j].state = "failed"]_vars

\* a job of a disputed proposal failed for good after three guard failures
C7_Witness ==
  /\ faults = 0
  /\ \E j \in LJobs : /\ LJob(j).data.proposalId \in disputes
                      /\ LJob(j).state = "failed"
                      /\ LJob(j).attemptsMade = LivenessAttempts
                      /\ finalizeTx[LJob(j).data.proposalId] = 0

\* finalizeProposal of job j evaluates its guard on a proposal in "liveness"
\* without disputes, all peer calls succeeding
GuardEvaluated(j) ==
  /\ LivenessAt(j, "check")
  /\ propPeer[LJob(j).data.proposalId].status = "liveness"
  /\ LJob(j).data.proposalId \notin disputes
  /\ faults' = faults
  /\ livenessQueue'[j] # livenessQueue[j]

GuardPassed(j) == livenessQueue'[j].state = "active" /\ livenessQueue'[j].pc = "chain"

\* C8 as stated: at a clock value equal to livenessExpiry the guard fails.
C8_FailsAtExpiry ==
  [][\A j \in LJobs :
        (GuardEvaluated(j) /\ clock = propPeer[LJob(j).data.proposalId].livenessExpiry)
           => ~GuardPassed(j)]_vars

\* C8 amended: the guard passes exactly when now >= livenessExpiry, the
\* clock value equal to livenessExpiry included.
C8_PassesFromExpiry ==
  [][\A j \in LJobs :
        GuardEvaluated(j) =>
          (GuardPassed(j) <=> clock >= propPeer[LJob(j).data.proposalId].livenessExpiry)]_vars

\* a job passed the guard at the clock value of the expiry and finalized
C8_Witness ==
  \E j \in LJobs :
     /\ LivenessAt(j, "chain")
     /\ clock = LJob(j).local.livenessExpiry
     /\ LJob(j).data.proposalId \notin disputes

\* the step confirms a settle transaction of job k
SettleTxIssued(k) ==
  /\ SettlementAt(k, "chain")
  /\ settleTx'[SJob(k).data.eventId] # settleTx[SJob(k).data.eventId]

\* C9: whenever the settle transaction is issued, the event's status at the
\* event-manager is RESOLVED.
C9_SettleTxOnlyWhenResolved ==
  [][\A k \in SJobs : SettleTxIssued(k) => emStatus[SJob(k).data.eventId] = RESOLVED]_vars

\* C10: once initiateProposal has moved the event to LIVENESS, the event
\* eventually is RESOLVED with a settle-event job scheduled, and then SETTLED.
C10_HappyPath ==
  \A e \in Events :
     /\ (emStatus[e] = LIVENESS) ~>
          (emStatus[e] = RESOLVED /\ \E k \in SJobs : SJob(k).data.eventId = e)
     /\ (emStatus[e] = LIVENESS) ~> (emStatus[e] = SETTLED)

\* the event was settled by the settle-event job after one finalization
C10_Witness ==
  \E e \in Events :
     /\ emStatus[e] = SETTLED
     /\ settleTx[e] = 1
     /\ \E k \in SJobs : SJob(k).data.eventId = e /\ SJob(k).state = "completed"
     /\ \E j \in LJobs : LJob(j).state = "completed" /\ LJob(j).attemptsMade = 0

\* a job that sits in the queue and has never been taken by a worker
NotStarted(job) == job.state \in Pending /\ job.attemptsMade = 0
\* a job that was removed before a worker ever took it
RemovedUnstarted(job) == job.state = "removed" /\ job.attemptsMade = 0
EventOf(p) == propPeer[p].eventId

\* C11: when handleDisputeDetected(p) returns while the check-liveness job of
\* p, which its scan of the queue found, has not started executing, that job
\* is removed and the event is DISPUTED; from then on the job never changes
\* again (it never fires), no finalize transaction is issued for p and the
\* event's status is not written.
C11_RemovedJobNeverFires ==
  [][/\ (hd.pc = "remove" /\ hd'.pc = "idle") =>
          \A j \in hd.jobs :
             (LJob(j).data.proposalId = hd.proposalId /\ NotStarted(LJob(j))) =>
                /\ RemovedUnstarted(livenessQueue'[j])
                /\ emStatus'[EventOf(hd.proposalId)] = DISPUTED
     /\ \A j \in LJobs :
          RemovedUnstarted(LJob(j)) =>
             /\ livenessQueue'[j] = LJob(j)
             /\ finalizeTx'[LJob(j).data.proposalId] = finalizeTx[LJob(j).data.proposalId]
             /\ emStatus'[EventOf(LJob(j).data.proposalId)] = DISPUTED]_vars

\* the job was removed before the expiry; the expiry has passed, nothing fired
C11_Witness ==
  \E j \in LJobs :
     /\ RemovedUnstarted(LJob(j))
     /\ hd.pc = "idle"
     /\ clock > propPeer[LJob(j).data.proposalId].livenessExpiry
     /\ finalizeTx[LJob(j).data.proposalId] = 0
     /\ emStatus[EventOf(LJob(j).data.proposalId)] = DISPUTED

\* C12: every step that writes an event's status at the event-manager leaves
\* no cache entry under event:{eventId}.
C12_WriteInvalidatesCache ==
  [][\A e \in Events : emStatus'[e] # emStatus[e] => cache'[EventKey(e)] = NoVal]_vars

\* settleEvent had the event cached as resolved when handleDisputeDetected
\* wrote DISPUTED: the entry is gone
C12_Witness ==
  \E k \in SJobs :
     /\ SettlementAt(k, "chain")
     /\ emStatus[SJob(k).data.eventId] = DISPUTED
     /\ cache[EventKey(SJob(k).data.eventId)] = NoVal

\* the step is settleEvent of job k returning successfully
SettleEventReturns(k) ==
  /\ SettlementAt(k, "patch")
  /\ settlementQueue'[k].state = "completed"

\* C13: right after a successful settleEvent(id) the cache has no entry
\* event:{id} and no key that matches proposal:*:{id}.
C13_PurgedAfterSettled ==
  [][\A k \in SJobs :
        SettleEventReturns(k) =>
          /\ emStatus'[SJob(k).data.eventId] = SETTLED
          /\ cache'[EventKey(SJob(k).data.eventId)] = NoVal
          /\ CacheKeysProposalOfEvent(cache', SJob(k).data.eventId) = {}]_vars

\* settleEvent completed on its first attempt and the event entry is gone
C13_Witness ==
  \E k \in SJobs :
     /\ SJob(k).state = "completed"
     /\ SJob(k).attemptsMade = 0
     /\ emStatus[SJob(k).data.eventId] = SETTLED
     /\ cache[EventKey(SJob(k).data.eventId)] = NoVal

\* C14: after a successful settleEvent(eventId) no entry proposal:{proposalId}
\* of a proposal of that event remains in the cache.
C14_ProposalEntriesPurged ==
  [][\A k \in SJobs :
        SettleEventReturns(k) =>
          \A p \in ProposalIds :
             (propPeer[p] # NoVal /\ EventOf(p) = SJob(k).data.eventId) =>
                cache'[ProposalKey(p)] = NoVal]_vars

\* the step is one in which the named call failed and its error was rethrown
Threw(call) == faults' > faults /\ lastFault' = [call |-> call, thrown |-> TRUE]
\* the step belongs to finalizeProposal of job j / settleEvent of job k
FinalizeStep(j) == LJob(j).state = "active" /\ livenessQueue'[j] # LJob(j)
SettleStep(k) == SJob(k).state = "active" /\ settlementQueue'[k] # SJob(k)
JobFailed(job) == job.state \in {"delayed", "failed"}

\* C15: a failing chain submission ends initiateProposal with no job enqueued
\* and no status written; a failing finalize transaction or PATCH to RESOLVED
\* ends finalizeProposal with no settle-event job; a failing settle
\* transaction or PATCH to SETTLED ends settleEvent with the cache untouched;
\* in each case the error is rethrown and the job, if any, does not complete.
C15_CriticalErrorsPropagate ==
  [][/\ Threw("submitProposal") =>
          /\ livenessQueue' = livenessQueue
          /\ emStatus' = emStatus
     /\ \A j \in LJobs :
          (FinalizeStep(j) /\ LJob(j).pc \in {"chain", "patch"}
             /\ (Threw("finalizeProposal") \/ Threw("patch"))) =>
             /\ settlementQueue' = settlementQueue
             /\ emStatus' = emStatus
             /\ JobFailed(livenessQueue'[j])
     /\ \A k \in SJobs :
          (SettleStep(k) /\ SJob(k).pc \in {"chain", "patch"}
             /\ (Threw("settleEvent") \/ Threw("patch"))) =>
             /\ cache' = cache
             /\ emStatus' = emStatus
             /\ JobFailed(settlementQueue'[k])
     /\ \A k \in SJobs :
          (SettleStep(k) /\ faults' > faults /\ lastFault'.thrown) =>
             JobFailed(settlementQueue'[k])
     /\ \A j \in LJobs :
          (FinalizeStep(j) /\ faults' > faults /\ lastFault'.thrown) =>
             JobFailed(livenessQueue'[j])]_vars

\* the PATCH to SETTLED failed after the settle transaction: the job is to be
\* retried and the event entry is still cached
C15_Witness ==
  \E k \in SJobs :
     /\ lastFault = [call |-> "patch", thrown |-> TRUE]
     /\ SJob(k).state = "delayed"
     /\ SJob(k).attemptsMade = 1
     /\ settleTx[SJob(k).data.eventId] = 1
     /\ emStatus[SJob(k).data.eventId] = RESOLVED
     /\ cache[EventKey(SJob(k).data.eventId)] # NoVal

\* the step is one in which the named best-effort call failed
FailedIn(call) == faults' = faults + 1 /\ lastFault'.call = call

\* C16: when the notification fails, handleDisputeDetected has written
\* DISPUTED and goes on to remove the jobs, and at its return every job of its
\* scan that is still delayed or waiting is removed; when the reward POST
\* fails, settleEvent writes SETTLED, purges the cache and returns.
C16_BestEffortFailuresSwallowed ==
  [][/\ FailedIn("notify") =>
          /\ ~lastFault'.thrown
          /\ hd'.pc = "remove"
          /\ emStatus'[EventOf(hd'.proposalId)] = DISPUTED
     /\ (hd.pc = "remove" /\ hd'.pc = "idle") =>
          \A j \in hd.jobs :
             (LJob(j).data.proposalId = hd.proposalId /\ LJob(j).state \in Pending) =>
                livenessQueue'[j].state = "removed"
     /\ \A k \in SJobs :
          (SettleStep(k) /\ FailedIn("distribute")) =>
             /\ ~lastFault'.thrown
             /\ settlementQueue'[k].state = "completed"
             /\ emStatus'[SJob(k).data.eventId] = SETTLED
             /\ cache'[EventKey(SJob(k).data.eventId)] = NoVal]_vars

\* the reward POST failed and the event was settled all the same
C16_Witness ==
  \E k \in SJobs :
     /\ lastFault = [call |-> "distribute", thrown |-> FALSE]
     /\ SJob(k).state = "completed"
     /\ emStatus[SJob(k).data.eventId] = SETTLED
     /\ rewardPosts[SJob(k).data.eventId] = FALSE
     /\ settleTx[SJob(k).data.eventId] = 1


\* C17: the batch handler invokes settleEvent once for every listed id, never
\* fails, and logs counts whose sum is the length of the list, successful
\* being the number of invocations that succeeded.
C17_BatchReportsEveryOutcome ==
  /\ batchJob # "failed"
  /\ batchJob \in {"active", "completed"} => batchCalls = batchIds
  /\ batchJob = "completed" =>
       /\ Len(batchLog) = 1
       /\ batchLog[1].successful + batchLog[1].failed = Len(batchIds)
       /\ batchLog[1].successful = CountOf(batchResults, "fulfilled")
       /\ \A i \in 1..Len(batchResults) : batchResults[i] \in {"fulfilled", "rejected"}

\* a batch of three ids, one of which is listed twice, with one failure
C17_Witness ==
  /\ batchJob = "completed"
  /\ batchIds = <<"e1", "e2", "e1">>
  /\ batchResults = <<"fulfilled", "rejected", "fulfilled">>
  /\ batchLog = << [successful |-> 2, failed |-> 1] >>

\* C18: between ticks, every EventCreated log of a range whose processing
\* advanced lastIndexedBlock has been POSTed successfully.
C18_AdvancedOnlyAfterAllPosted ==
  ix.pc = "idle" =>
    \A b \in Blocks :
       (HasLog(b) /\ covered[b] >= 1 /\ b <= lastIndexedBlock) => posted[b] >= 1

\* C19: while nothing has failed, lastIndexedBlock is seeded once, by the
\* first tick, with head - ReplayWindow, each tick processes
\* [lastIndexedBlock + 1, head], and between ticks the processed ranges cover
\* every block from the seed + 1 up to lastIndexedBlock exactly once and no
\* other block, every log in them having been POSTed exactly once.
C19_RangesPartitionBlocks ==
  faults = 0 =>
    /\ Len(ixSeeds) <= 1
    /\ ix.pc # "idle" =>
         /\ ix.from = lastIndexedBlock + 1
         /\ ix.to <= head
         /\ (\A b \in Blocks : covered[b] = 0) => ixSeeds = <<ix.to - ReplayWindow>>
    /\ (ix.pc = "idle" /\ ixSeeds # << >>) =>
         \A b \in Blocks :
            /\ covered[b] = IF ixSeeds[1] < b /\ b <= lastIndexedBlock THEN 1 ELSE 0
            /\ posted[b] = IF HasLog(b) THEN covered[b] ELSE 0

\* the first tick ran at head 1 and later ticks caught up with the head
C19_Witness ==
  /\ faults = 0
  /\ ix.pc = "idle"
  /\ ixSeeds = <<1 - ReplayWindow>>
  /\ head = MaxHead
  /\ lastIndexedBlock = MaxHead
  /\ \A b \in 1..MaxHead : posted[b] = 1

\* C20: with nothing failing, every processEvent call returns the context
\* whose currentState is the event's status, whatever that status is.
C20_ProcessEventIdempotent ==
  faults = 0 =>
    \A i \in 1..Len(peCalls) :
       /\ peCalls[i].outcome = "ok"
       /\ peCalls[i].context =
            [eventId |-> peCalls[i].eventId, currentState |-> emStatus[peCalls[i].eventId]]

\* C21: a pauseLivenessMonitoring call changes only jobs that were delayed or
\* waiting and carry its proposalId, which it removes; active jobs and jobs of
\* other proposals are left as they were, and a second call for the same
\* proposalId right after the first leaves the queue as the first left it.
C21_PauseIdempotent ==
  /\ \A i \in 1..Len(pauseLog) :
       LET c == pauseLog[i]
       IN  /\ Len(c.after) = Len(c.before)
           /\ \A j \in 1..Len(c.before) :
                c.after[j] # c.before[j] =>
                   /\ c.before[j].state \in {"delayed", "waiting"}
                   /\ c.before[j].data.proposalId = c.proposalId
                   /\ c.after[j].state = "removed"
  /\ \A i \in 1..(Len(pauseLog) - 1) :
       pauseLog[i + 1].proposalId = pauseLog[i].proposalId =>
          pauseLog[i + 1].after = pauseLog[i].after

\* two calls for one proposalId on a queue that held a pending job of it, a
\* running job of it and a pending job of another proposal
C21_Witness ==
  /\ Len(pauseLog) = 2
  /\ pauseLog[1].proposalId = pauseLog[2].proposalId
  /\ LET c == pauseLog[1]
     IN  /\ \E j \in 1..Len(c.before) : c.after[j] # c.before[j]
         /\ \E j \in 1..Len(c.before) :
              c.before[j].state = "active" /\ c.before[j].data.proposalId = c.proposalId
         /\ \E j \in 1..Len(c.before) :
              c.before[j].state \in {"delayed", "waiting"} /\ c.before[j].data.proposalId # c.proposalId

\* C22: no proposal has more than one finalize transaction on chain.
C22_FinalizeTxAtMostOnce == \A p \in ProposalIds : finalizeTx[p] <= 1

\* C23: no event has more than one settle transaction on chain.
C23_SettleTxAtMostOnce == \A e \in Events : settleTx[e] <= 1

\* no orchestrator operation is running: no handleDisputeDetected call, no
\* finalizeProposal and no settleEvent
NoOperationInFlight ==
  /\ hd.pc = "idle"
  /\ \A j \in LJobs : LJob(j).state # "active"
  /\ \A k \in SJobs : SJob(k).state # "active"

\* C24: while no operation is in flight, the cache entry of every event is
\* absent or holds the status of the event-manager record.
C24_CacheCoherentAtRest ==
  NoOperationInFlight =>
     \A e \in Events :
        \/ cache[EventKey(e)] = NoVal
        \/ cache[EventKey(e)].status = emStatus[e]

\* C25: once lastIndexedBlock has been seeded, no step lowers it.
C25_LastIndexedBlockMonotonic ==
  [][ixSeeds # << >> => lastIndexedBlock' >= lastIndexedBlock]_vars

====
